---- MODULE Spec2Model ----
(***************************************************************************)
(* Model of the audio streaming route (src/app/api/audio/stream/route.ts): *)
(* parseRange, optimizeRange, the GET handler with its two storage calls,  *)
(* and the in-memory rate limiter checkRateLimit / cleanupRateLimit.       *)
(*                                                                         *)
(* A header value is a sequence of symbols.  The literal "bytes=" of the   *)
(* regular expression is one symbol, every other character is a symbol of  *)
(* its own ("0".."9", "-", ","); the literal cannot overlap itself, so any *)
(* string has exactly one such reading.  The empty sequence stands for an  *)
(* absent (null) or empty header, which `if (range)` treats alike.         *)
(***************************************************************************)
EXTENDS Integers, Sequences, FiniteSets, TLC

VARIABLES
    \* one call of parseRange under examination
    pHeader, pSize, pResult, pState,
    \* one call of optimizeRange under examination
    oReq, oSize, oFirst, oResult, oState,
    \* the GET handler: the stored object, the request, the handler's locals
    objectSize, pc, request, fileSize, start, end, isPartialContent,
    isFirstRequest, fileMetadata, rangeResponse, response,
    \* the calls the storage service has received from the request in flight
    metaCalls, rangeCalls, fetched,
    \* the rate limiter: the shared table, the clock, the pending callers
    rateLimitMap, now, queued, lastCall, windowStart, windowCalls, windowAdmits,
    \* the client that follows X-Next-Range: the spans it has been served
    spans

parseVars == <<pHeader, pSize, pResult, pState>>
optVars   == <<oReq, oSize, oFirst, oResult, oState>>
getVars   == <<objectSize, pc, request, fileSize, start, end, isPartialContent,
               isFirstRequest, fileMetadata, rangeResponse, response,
               metaCalls, rangeCalls, fetched>>
rateVars  == <<rateLimitMap, now, queued, lastCall, windowStart, windowCalls,
               windowAdmits>>
clientVars == <<spans>>
vars      == <<parseVars, optVars, getVars, rateVars, clientVars>>

\* the call under examination has returned
pDone == pState = "returned"
oDone == oState = "returned"

----------------------------------------------------------------------------
(* Bounds of the model *)

MaxHeaderLen == 6      \* longest header enumerated for parseRange
MaxParseSize == 2      \* largest object size enumerated for parseRange
Delta        == 1      \* half-width of the neighbourhood taken around a size
MaxWindows   == 1      \* rate-limit windows the clock can run through
MaxOver      == 2      \* calls followed beyond the capacity of one window

----------------------------------------------------------------------------
(* Sizes written as the source writes them *)

MB == 1024 * 1024

Min(a, b) == IF a <= b THEN a ELSE b

\* the value `null`; every interval the code builds has start >= 0
Null == [start |-> -1, end |-> -1]

----------------------------------------------------------------------------
(* Characters, decimal parsing and formatting *)

Digit == {"0", "1", "2", "3", "4", "5", "6", "7", "8", "9"}

DigitVal ==
    ("0" :> 0) @@ ("1" :> 1) @@ ("2" :> 2) @@ ("3" :> 3) @@ ("4" :> 4) @@
    ("5" :> 5) @@ ("6" :> 6) @@ ("7" :> 7) @@ ("8" :> 8) @@ ("9" :> 9)

DigitChar == <<"0", "1", "2", "3", "4", "5", "6", "7", "8", "9">>

\* the value of the first n digits of s
RECURSIVE parseIntUpTo(_, _)
parseIntUpTo(s, n) ==
    IF n = 0 THEN 0
    ELSE 10 * parseIntUpTo(s, n - 1) + DigitVal[s[n]]

\* parseInt(s, 10) of a non-empty run of decimal digits
parseInt(s) == parseIntUpTo(s, Len(s))

\* `${n}` of a non-negative integer
RECURSIVE toString(_)
toString(n) ==
    IF n < 10 THEN <<DigitChar[n + 1]>>
    ELSE toString(n \div 10) \o <<DigitChar[(n % 10) + 1]>>

\* the greedy \d* : the longest run of digits of h that starts at position i
RECURSIVE digitRun(_, _)
digitRun(h, i) ==
    IF i <= Len(h) /\ h[i] \in Digit THEN <<h[i]>> \o digitRun(h, i + 1)
    ELSE <<>>

----------------------------------------------------------------------------
(* parseRange *)

\* /bytes=(\d*)-(\d*)/ tried at position i: the literal, the longest run of
\* digits, then "-"; a shorter run is followed by a digit, so backtracking
\* into the first group never helps
MatchAt(h, i) ==
    /\ i <= Len(h)
    /\ h[i] = "bytes="
    /\ LET g1 == digitRun(h, i + 1)
           d  == i + 1 + Len(g1)
       IN  d <= Len(h) /\ h[d] = "-"

\* the regular expression is not anchored: String.match takes the leftmost
\* position at which it matches
RECURSIVE firstMatch(_, _)
firstMatch(h, i) ==
    IF i > Len(h) THEN 0
    ELSE IF MatchAt(h, i) THEN i
    ELSE firstMatch(h, i + 1)

\* match and the two groups are functions of values already computed (the
\* code's const declarations), so each is evaluated once
parseRange(range, size) ==
    LET groups[g1 \in Seq(Digit), g2 \in Seq(Digit)] ==
            LET s == IF Len(g1) > 0 THEN parseInt(g1) ELSE 0
                e == IF Len(g2) > 0 THEN parseInt(g2) ELSE size - 1
            IN  IF s >= size \/ e >= size \/ s > e THEN Null
                ELSE [start |-> s, end |-> e]
        second[m \in Nat, g1 \in Seq(Digit)] ==
            groups[g1, digitRun(range, m + 2 + Len(g1))]
        match[m \in Nat] ==
            IF m = 0 THEN Null
            ELSE second[m, digitRun(range, m + 1)]
    IN  match[firstMatch(range, 1)]

----------------------------------------------------------------------------
(* optimizeRange *)

initialPlaybackSize(size) ==
    IF size < 5 * 1024 * 1024 THEN Min(1024 * 1024, size - 1)
    ELSE IF size < 15 * 1024 * 1024 THEN Min(2 * 1024 * 1024, size - 1)
    ELSE Min(3 * 1024 * 1024, size - 1)

\* the steady-state chunk taken from the first-request sizes
optimalChunkSize_InitialSizes(size) ==
    IF size < 5 * 1024 * 1024 THEN 1024 * 1024
    ELSE IF size < 15 * 1024 * 1024 THEN 2 * 1024 * 1024
    ELSE 3 * 1024 * 1024

optimalChunkSize(size) ==
    IF size < 5 * 1024 * 1024 THEN 512 * 1024
    ELSE IF size < 15 * 1024 * 1024 THEN 1024 * 1024
    ELSE 1536 * 1024

\* optimizeRange cutting every later request to the optimal chunk
optimizeRange_AlwaysChunk(requestedRange, size, first) ==
    IF first /\ requestedRange.start = 0
    THEN [start |-> 0, end |-> initialPlaybackSize(size)]
    ELSE [start |-> requestedRange.start,
          end   |-> Min(requestedRange.start + optimalChunkSize(size) - 1,
                        size - 1)]

\* optimizeRange without the Math.min against the last byte
optimizeRange_NoClamp(requestedRange, size, first) ==
    IF first /\ requestedRange.start = 0
    THEN [start |-> 0,
          end   |-> IF size < 5 * 1024 * 1024 THEN 1024 * 1024
                    ELSE IF size < 15 * 1024 * 1024 THEN 2 * 1024 * 1024
                    ELSE 3 * 1024 * 1024]
    ELSE
        LET requestedSize == requestedRange.end - requestedRange.start + 1 IN
        IF requestedSize < optimalChunkSize(size) /\ requestedRange.end < size - 1
        THEN [start |-> requestedRange.start,
              end   |-> requestedRange.start + optimalChunkSize(size) - 1]
        ELSE requestedRange

optimizeRange(requestedRange, size, first) ==
    IF first /\ requestedRange.start = 0
    THEN [start |-> 0, end |-> initialPlaybackSize(size)]
    ELSE
        LET requestedSize == requestedRange.end - requestedRange.start + 1 IN
        IF requestedSize < optimalChunkSize(size) /\ requestedRange.end < size - 1
        THEN [start |-> requestedRange.start,
              end   |-> Min(requestedRange.start + optimalChunkSize(size) - 1,
                            size - 1)]
        ELSE requestedRange

----------------------------------------------------------------------------
(* The rate limiter *)

windowMs    == 60 * 1000
maxRequests == 30

\* lines 13-20
cleanupRateLimit(map, t) ==
    [k \in DOMAIN map |->
        IF map[k].count > 0 /\ t > map[k].resetTime
        THEN [count |-> 0, resetTime |-> 0]
        ELSE map[k]]

\* checkRateLimit admitting while count <= maxRequests
checkRateLimit_OffByOne(map, identifier, t) ==
    LET m       == cleanupRateLimit(map, t)
        current == m[identifier]
        fresh   == [count |-> 1, resetTime |-> t + windowMs]
    IN  IF current.count = 0 \/ t > current.resetTime
        THEN [map |-> [m EXCEPT ![identifier] = fresh], admitted |-> TRUE]
        ELSE IF current.count > maxRequests
        THEN [map |-> m, admitted |-> FALSE]
        ELSE [map |-> [m EXCEPT ![identifier].count = current.count + 1],
              admitted |-> TRUE]

\* checkRateLimit incrementing a copy of the entry: the increment is lost
checkRateLimit_LostIncrement(map, identifier, t) ==
    LET m       == cleanupRateLimit(map, t)
        current == m[identifier]
        fresh   == [count |-> 1, resetTime |-> t + windowMs]
    IN  IF current.count = 0 \/ t > current.resetTime
        THEN [map |-> [m EXCEPT ![identifier] = fresh], admitted |-> TRUE]
        ELSE IF current.count >= maxRequests
        THEN [map |-> m, admitted |-> FALSE]
        ELSE [map |-> m, admitted |-> TRUE]

\* lines 23-48: the table after the call and the value returned
checkRateLimit(map, identifier, t) ==
    LET m       == cleanupRateLimit(map, t)
        current == m[identifier]
        fresh   == [count |-> 1, resetTime |-> t + windowMs]
    IN  IF current.count = 0
        THEN [map |-> [m EXCEPT ![identifier] = fresh], admitted |-> TRUE]
        ELSE IF t > current.resetTime
        THEN [map |-> [m EXCEPT ![identifier] = fresh], admitted |-> TRUE]
        ELSE IF current.count >= maxRequests
        THEN [map |-> m, admitted |-> FALSE]
        ELSE [map |-> [m EXCEPT ![identifier].count = current.count + 1],
              admitted |-> TRUE]

----------------------------------------------------------------------------
(* The GET handler: what it computes between its two awaits *)

\* lines 137-172: the range to serve and the two flags, or a failed parse
negotiate(range, size) ==
    IF range # <<>>
    THEN
        LET parsedRange == parseRange(range, size) IN
        IF parsedRange = Null
        THEN [ok |-> FALSE, start |-> 0, end |-> size - 1,
              isPartialContent |-> FALSE, isFirstRequest |-> FALSE]
        ELSE
            LET optimizedRange ==
                    optimizeRange(parsedRange, size, parsedRange.start = 0)
            IN  [ok |-> TRUE,
                 start |-> optimizedRange.start, end |-> optimizedRange.end,
                 isPartialContent |-> TRUE,
                 isFirstRequest |-> (parsedRange.start = 0)]
    ELSE
        LET optimizedRange ==
                optimizeRange([start |-> 0, end |-> size - 1], size, TRUE)
        IN  [ok |-> TRUE,
             start |-> optimizedRange.start, end |-> optimizedRange.end,
             isPartialContent |-> (optimizedRange.end < size - 1),
             isFirstRequest |-> TRUE]

\* the cache policy with the partial-content test before the first-request test
\* and the two revalidatable policies exchanged
cacheControl_SizeOnly(first, size, partial) ==
    IF size > 10 * 1024 * 1024
    THEN "public, max-age=7200, stale-while-revalidate=3600"
    ELSE "public, max-age=86400, stale-while-revalidate=3600"

\* lines 202-213
cacheControl(first, size, partial) ==
    IF first /\ size > 10 * 1024 * 1024
    THEN "public, max-age=7200, stale-while-revalidate=3600"
    ELSE IF partial
    THEN "public, max-age=31536000, immutable"
    ELSE "public, max-age=86400, stale-while-revalidate=3600"

\* the hint starting at the last byte served instead of the byte after it
xNextRange_Overlap(s, e, size, partial) ==
    IF partial /\ e < size - 1
    THEN <<"bytes=">> \o toString(e) \o <<"-">>
            \o toString(Min(e + (e - s + 1) - 1, size - 1))
    ELSE <<>>

\* the hint without the Math.min against the last byte
xNextRange_NoClamp(s, e, size, partial) ==
    IF partial /\ e < size - 1
    THEN <<"bytes=">> \o toString(e + 1) \o <<"-">>
            \o toString(e + 1 + (e - s + 1) - 1)
    ELSE <<>>

\* lines 228-234: the value of X-Next-Range, <<>> when the header is not set
xNextRange(s, e, size, partial) ==
    IF partial /\ e < size - 1
    THEN
        LET contentLength  == e - s + 1
            nextChunkStart == e + 1
            nextChunkEnd   == Min(nextChunkStart + contentLength - 1, size - 1)
        IN  <<"bytes=">> \o toString(nextChunkStart) \o <<"-">>
                \o toString(nextChunkEnd)
    ELSE <<>>

\* lines 228-232: whether the Link header is set
linkHeader(s, e, size, partial) == partial /\ e < size - 1

\* lines 185, 236-238: the value of Content-Range, <<>> when not set
contentRange(s, e, size, partial) ==
    IF partial
    THEN <<"bytes ">> \o toString(s) \o <<"-">> \o toString(e) \o <<"/">>
            \o toString(size)
    ELSE <<>>

\* every delivery answered as partial content
statusOf_Always206(partial) == 206

\* lines 240-243
statusOf(partial) == IF partial THEN 206 ELSE 200

\* lines 184-243: the response that delivers the bytes
streamResponse(s, e, size, partial, first) ==
    [status |-> statusOf(partial), body |-> "stream",
     start |-> s, end |-> e,
     contentLength |-> e - s + 1,
     cacheControl |-> cacheControl(first, size, partial),
     contentRange |-> contentRange(s, e, size, partial),
     link |-> linkHeader(s, e, size, partial),
     xNextRange |-> xNextRange(s, e, size, partial)]

\* the responses that deliver no bytes
errorResponse(status, body) ==
    [status |-> status, body |-> body, start |-> 0, end |-> 0,
     contentLength |-> 0, cacheControl |-> "", contentRange |-> <<>>,
     link |-> FALSE, xNextRange |-> <<>>]

----------------------------------------------------------------------------
(* Values of the parts of the program a specification leaves at rest *)

NoInterval == [start |-> 0, end |-> 0]

NoResponse ==
    [status |-> 0, body |-> "", start |-> 0, end |-> 0, contentLength |-> 0,
     cacheControl |-> "", contentRange |-> <<>>, link |-> FALSE,
     xNextRange |-> <<>>]

NoRequest == [file |-> FALSE, range |-> <<>>]

NoCall == [identifier |-> "", admitted |-> FALSE, contended |-> FALSE]

Identifiers == {"a", "b"}

\* the requests that can be pending at the same time
Callers == {"r1", "r2"}

\* an identifier the Map has no entry for; the entries it has count >= 1
NoEntry == [count |-> 0, resetTime |-> 0]

ParseAtRest ==
    /\ pHeader = <<>> /\ pSize = 1 /\ pResult = Null /\ pState = "rest"

OptAtRest ==
    /\ oReq = NoInterval /\ oSize = 1 /\ oFirst = FALSE
    /\ oResult = NoInterval /\ oState = "rest"

GetAtRest ==
    /\ objectSize = 1 /\ pc = "off" /\ request = NoRequest
    /\ fileSize = 0 /\ start = 0 /\ end = 0
    /\ isPartialContent = FALSE /\ isFirstRequest = FALSE
    /\ fileMetadata = "none" /\ rangeResponse = "none"
    /\ response = NoResponse /\ metaCalls = 0 /\ rangeCalls = 0
    /\ fetched = <<>> /\ spans = <<>>

RateAtRest ==
    /\ rateLimitMap = [i \in Identifiers |-> NoEntry]
    /\ now = 0 /\ queued = [c \in Callers |-> ""] /\ lastCall = NoCall
    /\ windowStart = [i \in Identifiers |-> -1]
    /\ windowCalls = [i \in Identifiers |-> 0]
    /\ windowAdmits = [i \in Identifiers |-> 0]

----------------------------------------------------------------------------
(* parseRange applied to every header of at most MaxHeaderLen symbols *)

ParseSymbols == {"bytes=", "0", "1", "-", ","}

ParseHeaders == UNION {[1..n -> ParseSymbols] : n \in 0..MaxHeaderLen}

InitParse ==
    /\ pHeader \in ParseHeaders
    /\ pSize \in 1..MaxParseSize
    /\ pResult = Null /\ pState = "called"
    /\ OptAtRest /\ GetAtRest /\ RateAtRest

CallParseRange ==
    /\ pState = "called"
    /\ pResult' = parseRange(pHeader, pSize)
    /\ pState' = "returned"
    /\ UNCHANGED <<pHeader, pSize, optVars, getVars, rateVars, clientVars>>

SpecParse == InitParse /\ [][CallParseRange]_vars

----------------------------------------------------------------------------
(* optimizeRange applied around every threshold of the code *)

Around(x) == {x + d : d \in (0 - Delta)..Delta}

SizeAnchors ==
    {1, 512 * 1024, MB, 1536 * 1024, 2 * MB, 3 * MB, 4 * MB, 5 * MB,
     10 * MB, 15 * MB, 20 * MB}

ObjectSizes == {s \in UNION {Around(a) : a \in SizeAnchors} : s >= 1}

ChunkAnchors == {512 * 1024, MB, 1536 * 1024, 2 * MB, 3 * MB}

Lengths == (1..(1 + Delta)) \cup UNION {Around(c) : c \in ChunkAnchors}

Starts(size) ==
    {s \in (0..Delta) \cup UNION {Around(c) : c \in ChunkAnchors}
           \cup UNION {Around(size - c) : c \in ChunkAnchors}
           \cup ((size - 1 - Delta)..(size - 1)) :
        0 <= s /\ s <= size - 1}

ValidRanges(size) ==
    UNION {
        {[start |-> s, end |-> e] :
            e \in {x \in {s + l - 1 : l \in Lengths}
                         \cup ((size - 1 - Delta)..(size - 1)) :
                     s <= x /\ x <= size - 1}}
        : s \in Starts(size)}

InitOpt ==
    /\ oSize \in ObjectSizes
    /\ oReq \in ValidRanges(oSize)
    /\ oFirst \in BOOLEAN
    /\ oResult = NoInterval /\ oState = "called"
    /\ ParseAtRest /\ GetAtRest /\ RateAtRest

CallOptimizeRange ==
    /\ oState = "called"
    /\ oResult' = optimizeRange(oReq, oSize, oFirst)
    /\ oState' = "returned"
    /\ UNCHANGED <<oReq, oSize, oFirst, parseVars, getVars, rateVars, clientVars>>

SpecOpt == InitOpt /\ [][CallOptimizeRange]_vars

----------------------------------------------------------------------------
(* The GET handler as a process: one step per stretch between awaits *)

Omitted == 0 - 1

RangeHeader(s, e) ==
    <<"bytes=">> \o (IF s = Omitted THEN <<>> ELSE toString(s)) \o <<"-">>
        \o (IF e = Omitted THEN <<>> ELSE toString(e))

HeaderBounds(size) ==
    {Omitted} \cup
    {n \in (0..Delta) \cup UNION {Around(c) : c \in ChunkAnchors}
           \cup ((size - 1 - Delta)..(size + Delta)) : n >= 0}

\* the scenarios of the specification and some headers outside the grammar
OtherHeaders ==
    {RangeHeader(2097152, 2097663), RangeHeader(4000000, 4194303),
     RangeHeader(5000000, Omitted),
     <<",">>, <<"bytes=">>, <<"bytes=", "0", "1">>,
     <<"bytes=", "0", "-", "0", ",", "1", "-", "1">>,
     <<",", "bytes=", "0", "-", "0">>}

GetHeaders(size) ==
    {<<>>} \cup OtherHeaders \cup
    {RangeHeader(s, e) : s \in HeaderBounds(size), e \in HeaderBounds(size)}

\* what getfileMediaInfo and getFileRange resolve to: both catch every error
\* of the client and return null; a reply may lack ContentLength or Body
MetaOutcomes  == {"null", "noContentLength", "ok"}
RangeOutcomes == {"null", "noBody", "ok"}

InitGet ==
    /\ objectSize \in ObjectSizes
    /\ pc = "idle" /\ request = NoRequest
    /\ fileSize = 0 /\ start = 0 /\ end = 0
    /\ isPartialContent = FALSE /\ isFirstRequest = FALSE
    /\ fileMetadata = "none" /\ rangeResponse = "none"
    /\ response = NoResponse /\ metaCalls = 0 /\ rangeCalls = 0
    /\ fetched = <<>> /\ spans = <<>>
    /\ ParseAtRest /\ OptAtRest /\ RateAtRest

\* a request reaches the handler; requests share no state, so one is followed
Arrive ==
    /\ pc = "idle"
    /\ \E f \in BOOLEAN, r \in GetHeaders(objectSize) :
          request' = [file |-> f, range |-> r]
    /\ pc' = "start"
    /\ fileSize' = 0 /\ start' = 0 /\ end' = 0
    /\ isPartialContent' = FALSE /\ isFirstRequest' = FALSE
    /\ fileMetadata' = "none" /\ rangeResponse' = "none"
    /\ response' = NoResponse /\ metaCalls' = 0 /\ rangeCalls' = 0
    /\ fetched' = <<>>
    /\ UNCHANGED <<objectSize, parseVars, optVars, rateVars, clientVars>>

\* lines 112-128: up to the await of getfileMediaInfo
Validate ==
    /\ pc = "start"
    /\ IF ~request.file
       THEN /\ response' = errorResponse(400, "Missing file parameter")
            /\ pc' = "done"
            /\ UNCHANGED metaCalls
       ELSE /\ metaCalls' = metaCalls + 1
            /\ pc' = "awaitMeta"
            /\ UNCHANGED response
    /\ UNCHANGED <<objectSize, request, fileSize, start, end, isPartialContent,
                   isFirstRequest, fileMetadata, rangeResponse, rangeCalls,
                   fetched, parseVars, optVars, rateVars, clientVars>>

\* lines 128-175: from the metadata to the await of getFileRange
MetadataReturns ==
    /\ pc = "awaitMeta"
    /\ \E outcome \in MetaOutcomes :
        /\ fileMetadata' = outcome
        /\ IF outcome # "ok"
           THEN /\ response' = errorResponse(500, "Unable to determine file size")
                /\ pc' = "done"
                /\ UNCHANGED <<fileSize, start, end, isPartialContent,
                               isFirstRequest, rangeCalls, fetched>>
           ELSE \E n \in {negotiate(request.range, objectSize)} :
                /\ fileSize' = objectSize
                /\ start' = n.start /\ end' = n.end
                /\ isPartialContent' = n.isPartialContent
                /\ isFirstRequest' = n.isFirstRequest
                /\ IF ~n.ok
                   THEN /\ response' = errorResponse(416, "Invalid range")
                        /\ pc' = "done"
                        /\ UNCHANGED <<rangeCalls, fetched>>
                   ELSE /\ rangeCalls' = rangeCalls + 1
                        /\ fetched' = Append(fetched,
                                        [start |-> n.start, end |-> n.end])
                        /\ pc' = "awaitBytes"
                        /\ UNCHANGED response
    /\ UNCHANGED <<objectSize, request, rangeResponse, metaCalls,
                   parseVars, optVars, rateVars, clientVars>>

\* the handler asking the storage again after a failed or empty fetch
BytesReturn_Retry ==
    /\ pc = "awaitBytes"
    /\ \E outcome \in RangeOutcomes :
        /\ rangeResponse' = outcome
        /\ IF outcome # "ok" /\ rangeCalls < 2
           THEN /\ rangeCalls' = rangeCalls + 1
                /\ fetched' = Append(fetched, [start |-> start, end |-> end])
                /\ pc' = "awaitBytes"
                /\ UNCHANGED response
           ELSE /\ response' =
                      IF outcome # "ok"
                      THEN errorResponse(404, "Audio file not found")
                      ELSE streamResponse(start, end, fileSize,
                                          isPartialContent, isFirstRequest)
                /\ pc' = "done"
                /\ UNCHANGED <<rangeCalls, fetched>>
    /\ UNCHANGED <<objectSize, request, fileSize, start, end, isPartialContent,
                   isFirstRequest, fileMetadata, metaCalls,
                   parseVars, optVars, rateVars, clientVars>>

\* lines 175-243: from the bytes to the response
BytesReturn ==
    /\ pc = "awaitBytes"
    /\ \E outcome \in RangeOutcomes :
        /\ rangeResponse' = outcome
        /\ response' =
              IF outcome # "ok"
              THEN errorResponse(404, "Audio file not found")
              ELSE streamResponse(start, end, fileSize, isPartialContent,
                                  isFirstRequest)
    /\ pc' = "done"
    /\ UNCHANGED <<objectSize, request, fileSize, start, end, isPartialContent,
                   isFirstRequest, fileMetadata, metaCalls, rangeCalls,
                   fetched, parseVars, optVars, rateVars, clientVars>>

NextGet == Arrive \/ Validate \/ MetadataReturns \/ BytesReturn

SpecGet == InitGet /\ [][NextGet]_vars

\* the handler together with optimizeRange on every valid input
SpecStream ==
    (InitGet \/ InitOpt) /\ [][NextGet \/ CallOptimizeRange]_vars

----------------------------------------------------------------------------
(* The rate limiter under simultaneous requests *)

\* the instants at which the clock is read: the millisecond before, at and
\* after every multiple of the window
Instants ==
    {t \in UNION {{k * windowMs - 1, k * windowMs, k * windowMs + 1} :
                      k \in 0..MaxWindows} : t >= 0}

InitRate ==
    /\ rateLimitMap = [i \in Identifiers |-> NoEntry]
    /\ now = 0
    /\ queued = [c \in Callers |-> ""]
    /\ lastCall = NoCall
    /\ windowStart = [i \in Identifiers |-> -1]
    /\ windowCalls = [i \in Identifiers |-> 0]
    /\ windowAdmits = [i \in Identifiers |-> 0]
    /\ ParseAtRest /\ OptAtRest /\ GetAtRest

\* Date.now() moves on
Tick ==
    /\ \E t \in Instants : t > now /\ now' = t
    /\ UNCHANGED <<rateLimitMap, queued, lastCall, windowStart, windowCalls,
                   windowAdmits, parseVars, optVars, getVars, clientVars>>

\* a request arrives and waits for the event loop to run it
Request(c) ==
    /\ queued[c] = ""
    /\ \E i \in Identifiers : queued' = [queued EXCEPT ![c] = i]
    /\ UNCHANGED <<rateLimitMap, now, lastCall, windowStart, windowCalls,
                   windowAdmits, parseVars, optVars, getVars, clientVars>>

\* a whole window and more is followed for "a"; "b" is the other client,
\* whose entry expires and is swept while "a" is served
CallLimit(i) == IF i = "a" THEN maxRequests + MaxOver ELSE MaxOver

\* the window of identifier i, reckoned from the times of the calls alone:
\* it is opened by the first call and by the first call made more than
\* windowMs after the call that opened the one before
Opens(i) == windowStart[i] < 0 \/ now > windowStart[i] + windowMs

\* the event loop runs the call of request c to completion: checkRateLimit
\* has no await, so nothing else runs between its first and its last line
Run(c) ==
    /\ queued[c] # ""
    /\ LET i == queued[c]
           r == checkRateLimit(rateLimitMap, i, now)
       IN  /\ Opens(i) \/ windowCalls[i] < CallLimit(i)
           /\ rateLimitMap' = r.map
           /\ lastCall' =
                 [identifier |-> i, admitted |-> r.admitted,
                  contended |-> \E d \in Callers : d # c /\ queued[d] = i]
           /\ windowStart' =
                 IF Opens(i) THEN [windowStart EXCEPT ![i] = now]
                 ELSE windowStart
           /\ windowCalls' =
                 [windowCalls EXCEPT
                    ![i] = IF Opens(i) THEN 1 ELSE windowCalls[i] + 1]
           /\ windowAdmits' =
                 [windowAdmits EXCEPT
                    ![i] = (IF Opens(i) THEN 0 ELSE windowAdmits[i])
                           + (IF r.admitted THEN 1 ELSE 0)]
    /\ queued' = [queued EXCEPT ![c] = ""]
    /\ UNCHANGED <<now, parseVars, optVars, getVars, clientVars>>

NextRate == Tick \/ (\E c \in Callers : Request(c) \/ Run(c))

SpecRate == InitRate /\ [][NextRate]_vars

----------------------------------------------------------------------------
(* C1 *)

Inside(r, size) == 0 <= r.start /\ r.start <= r.end /\ r.end <= size - 1

\* C1: for every object size >= 1, every valid requested range and both
\* values of isFirstRequest, optimizeRange returns an interval with
\* 0 <= start <= end <= objectSize - 1; and every range GET asks of the
\* storage, with or without a Range header, lies inside the object.
C1_OptimizedRangeInsideObject ==
    /\ oDone => Inside(oResult, oSize)
    /\ \A i \in 1..Len(fetched) : Inside(fetched[i], objectSize)

\* the first-request policy on an object shorter than its initial chunk
C1_Witness ==
    /\ oDone /\ oFirst /\ oReq.start = 0
    /\ oSize > 1 /\ oSize < MB
    /\ oResult = [start |-> 0, end |-> oSize - 1]

\* a ranged GET whose expansion stops at the last byte
C1_WitnessGet ==
    /\ Len(fetched) = 1 /\ request.range # <<>>
    /\ fetched[1].start > 0
    /\ fetched[1].end = objectSize - 1
    /\ parseRange(request.range, objectSize).end < objectSize - 1

----------------------------------------------------------------------------
(* C2 *)

\* the grammar of the claim: the whole header is bytes=<digits>-<digits>
IsSingleRange(h) ==
    /\ Len(h) >= 2
    /\ h[1] = "bytes="
    /\ \E k \in 2..Len(h) :
          /\ h[k] = "-"
          /\ \A i \in 2..Len(h) : i # k => h[i] \in Digit

DashOf(h) == CHOOSE k \in 2..Len(h) : h[k] = "-"

StatedStart(h) ==
    IF DashOf(h) = 2 THEN 0 ELSE parseInt(SubSeq(h, 2, DashOf(h) - 1))

StatedEnd(h, size) ==
    IF DashOf(h) = Len(h) THEN size - 1
    ELSE parseInt(SubSeq(h, DashOf(h) + 1, Len(h)))

Satisfiable(h, size) ==
    /\ IsSingleRange(h)
    /\ 0 <= StatedStart(h)
    /\ StatedStart(h) <= StatedEnd(h, size)
    /\ StatedEnd(h, size) < size

\* C2: parseRange returns an interval exactly when the header is one range
\* bytes=<start>-<end> (start defaulting to 0, end to objectSize - 1) with
\* 0 <= start <= end < objectSize, and then exactly that interval; every
\* other header yields null (416).
C2_ParseExactlySingleRanges ==
    pDone =>
        IF Satisfiable(pHeader, pSize)
        THEN pResult = [start |-> StatedStart(pHeader),
                        end   |-> StatedEnd(pHeader, pSize)]
        ELSE pResult = Null

----------------------------------------------------------------------------
(* C3 *)

SteadyState == ~(oFirst /\ oReq.start = 0)

\* C3: under the steady-state policy the returned interval keeps the
\* requested start, never ends before the requested end, and is the
\* requested interval itself when that already ends at the last byte.
C3_SteadyNeverShrinks ==
    (oDone /\ SteadyState) =>
        /\ oResult.start = oReq.start
        /\ oResult.end >= oReq.end
        /\ (oReq.end = oSize - 1 => oResult = oReq)

\* a short request that reaches the last byte, returned as it was
C3_Witness ==
    /\ oDone /\ SteadyState
    /\ oReq.end = oSize - 1
    /\ oReq.end - oReq.start + 1 < optimalChunkSize(oSize)
    /\ oResult = oReq

\* a long request, longer than the optimal chunk, returned as it was
C3_WitnessLong ==
    /\ oDone /\ SteadyState
    /\ oReq.end < oSize - 1
    /\ oReq.end - oReq.start + 1 > optimalChunkSize(oSize)
    /\ oResult = oReq

----------------------------------------------------------------------------
(* C4 *)

Delivered == pc = "done" /\ response.body = "stream"

NoRangeHeader == request.range = <<>>

\* C4: a GET with no Range header is served an initial chunk of exactly the
\* tier size: 0-1048575 of an object of 4,194,304 bytes and 0-3145727 of an
\* object of 20,971,520 bytes, each with status 206.
C4_InitialChunkIsTierSize ==
    (Delivered /\ NoRangeHeader) =>
        /\ objectSize = 4194304 =>
              /\ response.start = 0 /\ response.end = 1048575
              /\ response.contentLength = 1048576
              /\ response.status = 206
        /\ objectSize = 20971520 =>
              /\ response.start = 0 /\ response.end = 3145727
              /\ response.contentLength = 3145728
              /\ response.status = 206

----------------------------------------------------------------------------
(* C5 *)

WholeObject == response.start = 0 /\ response.end = objectSize - 1

\* C5 as stated: a delivering response has status 200 exactly when the
\* served range is 0..objectSize-1 and 206 otherwise, with or without a
\* Range header.
C5_StatusFollowsCoverage ==
    Delivered =>
        /\ response.status \in {200, 206}
        /\ response.status = 200 <=> WholeObject

\* C5 as amended: a delivering response has status 206 when the request
\* carried a Range header or the served range is not the whole object, and
\* 200 exactly when there was no Range header and the whole object is served.
C5_StatusFollowsHeaderAndCoverage ==
    Delivered =>
        /\ response.status \in {200, 206}
        /\ response.status = 200 <=> (NoRangeHeader /\ WholeObject)
        /\ ~WholeObject => response.status = 206

\* a ranged request served the whole object with status 206
C5_Witness ==
    /\ Delivered /\ ~NoRangeHeader /\ WholeObject
    /\ response.status = 206

\* a request without Range served the whole object with status 200
C5_WitnessFull ==
    /\ Delivered /\ NoRangeHeader /\ WholeObject
    /\ response.status = 200

----------------------------------------------------------------------------
(* C6 *)

\* C6 as stated: an object of 4,194,304 bytes requested with no Range header
\* is answered with the medium revalidatable cache policy.
C6_FourMegabytesMediumCache ==
    (Delivered /\ NoRangeHeader /\ objectSize = 4194304) =>
        response.cacheControl
            = "public, max-age=86400, stale-while-revalidate=3600"

\* C6 as amended: an object of 4,194,304 bytes requested with no Range header
\* is answered with the long immutable cache policy, the response being
\* partial (206) and the object not above 10 MB.
C6_FourMegabytesImmutableCache ==
    (Delivered /\ NoRangeHeader /\ objectSize = 4194304) =>
        /\ response.status = 206
        /\ response.cacheControl = "public, max-age=31536000, immutable"

C6_Witness ==
    /\ Delivered /\ NoRangeHeader /\ objectSize = 4194304
    /\ response.cacheControl = "public, max-age=31536000, immutable"

----------------------------------------------------------------------------
(* C7 *)

\* request c is run by this step
Runs(c) == queued[c] # "" /\ queued'[c] = ""

\* C7: for a fresh identifier checkRateLimit admits exactly the first 30
\* calls of the 60-second window and rejects the 31st and every later call
\* made before the window resets, a rejected call leaving the stored entry
\* as it was and the count never above 30; a call made when more than 60
\* seconds have passed since the first call of the window opens a new window,
\* is admitted, and sets the count to 1.  (At the very millisecond
\* first call + 60000 the window has not yet reset.)
C7_FixedWindowAdmission ==
    [][\A c \in Callers :
          Runs(c) =>
            LET i == queued[c] IN
            /\ lastCall'.identifier = i
            /\ rateLimitMap'[i].count <= maxRequests
            /\ IF Opens(i)
               THEN /\ lastCall'.admitted
                    /\ rateLimitMap'[i] =
                          [count |-> 1, resetTime |-> now + windowMs]
               ELSE /\ lastCall'.admitted <=> windowCalls[i] < maxRequests
                    /\ lastCall'.admitted =>
                          rateLimitMap'[i] =
                             [count |-> windowCalls[i] + 1,
                              resetTime |-> windowStart[i] + windowMs]
                    /\ ~lastCall'.admitted =>
                          rateLimitMap'[i] = rateLimitMap[i]
      ]_vars

\* the 31st call of a window, rejected, the count left at 30
C7_Witness ==
    /\ lastCall.identifier = "a" /\ ~lastCall.admitted
    /\ windowCalls["a"] = maxRequests + 1
    /\ rateLimitMap["a"].count = maxRequests

\* a second window of the same identifier, opened with count 1
C7_WitnessNewWindow ==
    /\ lastCall.identifier = "a" /\ lastCall.admitted
    /\ windowStart["a"] > windowMs
    /\ rateLimitMap["a"] = [count |-> 1, resetTime |-> now + windowMs]

\* the 31st call made at the very millisecond the window ends, rejected
C7_WitnessBoundary ==
    /\ lastCall.identifier = "a" /\ ~lastCall.admitted
    /\ now = windowStart["a"] + windowMs

----------------------------------------------------------------------------
(* C8 *)

\* C8: under every interleaving of the arrivals and the runs of simultaneous
\* requests, the count stored for an identifier is the number of calls
\* admitted in its window, none lost and none counted twice, and at most 30
\* calls are admitted for an identifier within one window.
C8_NoLostOrDoubleAdmission ==
    \A i \in Identifiers :
        /\ windowAdmits[i] <= maxRequests
        /\ rateLimitMap[i].count > 0 =>
              /\ rateLimitMap[i].count = windowAdmits[i]
              /\ rateLimitMap[i].resetTime = windowStart[i] + windowMs

\* a request rejected while another request for the same identifier was
\* pending, the window full
C8_Witness ==
    /\ lastCall.contended /\ ~lastCall.admitted
    /\ windowAdmits[lastCall.identifier] = maxRequests
    /\ \E c \in Callers : queued[c] = lastCall.identifier

----------------------------------------------------------------------------
(* C9 *)

\* C9: the metadata fetch is issued at most once; the byte-range fetch at
\* most once, and only after the metadata fetch returned a size and the Range
\* header, if any, parsed; a request ending with 400, with 500 for lack of a
\* size or with 416 "Invalid range" has issued no byte-range fetch; a failed
\* or empty byte-range fetch ends the request with 404 after that one fetch.
C9_StorageCallsSequentialOnce ==
    /\ metaCalls <= 1 /\ rangeCalls <= 1
    /\ Len(fetched) = rangeCalls
    /\ rangeCalls >= 1 =>
          /\ metaCalls = 1 /\ fileMetadata = "ok" /\ fileSize = objectSize
          /\ ~NoRangeHeader => parseRange(request.range, fileSize) # Null
    /\ (pc = "done" /\ response.status = 400) =>
          metaCalls = 0 /\ rangeCalls = 0
    /\ (pc = "done" /\ response.status = 500) =>
          metaCalls = 1 /\ rangeCalls = 0
    /\ (pc = "done" /\ response.status = 416) =>
          /\ response.body = "Invalid range"
          /\ metaCalls = 1 /\ rangeCalls = 0
    /\ rangeResponse \in {"null", "noBody"} =>
          /\ pc = "done" /\ response.status = 404
          /\ rangeCalls = 1

\* a byte-range fetch that failed, answered 404 after one fetch
C9_Witness ==
    /\ pc = "done" /\ rangeResponse = "null"
    /\ response.status = 404 /\ rangeCalls = 1 /\ metaCalls = 1

\* a Range header that does not parse, answered 416 without a fetch
C9_Witness416 ==
    /\ pc = "done" /\ response.status = 416 /\ rangeCalls = 0

----------------------------------------------------------------------------
(* C10 *)

HintedStart == StatedStart(response.xNextRange)
HintedEnd   == StatedEnd(response.xNextRange, objectSize)

MoreRemains == response.status = 206 /\ response.end < objectSize - 1

\* C10: a delivering response carries Link and X-Next-Range exactly when it
\* is partial and end < objectSize - 1; the hint is bytes=<end + 1>-<min(end
\* + 1 + servedLength - 1, objectSize - 1)> with servedLength = end - start
\* + 1, so that nextStart <= nextEnd <= objectSize - 1.
C10_PrefetchHint ==
    Delivered =>
        /\ response.link <=> MoreRemains
        /\ response.xNextRange # <<>> <=> MoreRemains
        /\ MoreRemains =>
              /\ IsSingleRange(response.xNextRange)
              /\ DashOf(response.xNextRange) > 2
              /\ DashOf(response.xNextRange) < Len(response.xNextRange)
              /\ HintedStart = response.end + 1
              /\ HintedEnd =
                    Min(HintedStart + (response.end - response.start + 1) - 1,
                        objectSize - 1)
              /\ HintedStart <= HintedEnd
              /\ HintedEnd <= objectSize - 1

\* a hint cut short by the end of the object
C10_Witness ==
    /\ Delivered /\ MoreRemains
    /\ HintedEnd = objectSize - 1
    /\ HintedStart + (response.end - response.start + 1) - 1 > objectSize - 1

\* a hint of the full served length
C10_WitnessFullLength ==
    /\ Delivered /\ MoreRemains
    /\ HintedEnd < objectSize - 1
    /\ HintedEnd - HintedStart = response.end - response.start

----------------------------------------------------------------------------
(* C11 *)

SmallRequestOfFourMegabytes ==
    /\ Delivered /\ objectSize = 4194304
    /\ request.range = RangeHeader(2097152, 2097663)

\* C11 as stated: of an object of 4,194,304 bytes the request
\* Range: bytes=2097152-2097663 is expanded with the 512 KB optimal chunk and
\* served as 2097152-2621695.
C11_ExpandedTo2621695 ==
    SmallRequestOfFourMegabytes =>
        response.start = 2097152 /\ response.end = 2621695

\* C11 as amended: the request is expanded with the 512 KB optimal chunk and
\* served as 2097152-2621439, that is 524,288 bytes from the requested start.
C11_ExpandedTo2621439 ==
    SmallRequestOfFourMegabytes =>
        /\ response.start = 2097152 /\ response.end = 2621439
        /\ response.contentLength = 512 * 1024
        /\ response.status = 206

C11_Witness ==
    /\ SmallRequestOfFourMegabytes
    /\ response.end = 2097152 + 512 * 1024 - 1

----------------------------------------------------------------------------
(* A client that follows the prefetch hint, the storage always answering *)

\* the first GET, with the file parameter and no Range header
FollowFirst ==
    /\ Arrive
    /\ request' = [file |-> TRUE, range |-> <<>>]

FollowValidate == Validate

FollowMetadata == MetadataReturns /\ fileMetadata' = "ok"

FollowBytes == BytesReturn /\ rangeResponse' = "ok"

Served == [status |-> response.status, start |-> response.start,
           end |-> response.end]

\* the client takes the response and asks for exactly its X-Next-Range
FollowHint ==
    /\ pc = "done" /\ response.xNextRange # <<>>
    /\ spans' = Append(spans, Served)
    /\ request' = [file |-> TRUE, range |-> response.xNextRange]
    /\ pc' = "start"
    /\ fileSize' = 0 /\ start' = 0 /\ end' = 0
    /\ isPartialContent' = FALSE /\ isFirstRequest' = FALSE
    /\ fileMetadata' = "none" /\ rangeResponse' = "none"
    /\ response' = NoResponse /\ metaCalls' = 0 /\ rangeCalls' = 0
    /\ fetched' = <<>>
    /\ UNCHANGED <<objectSize, parseVars, optVars, rateVars>>

\* the client takes a response without X-Next-Range and stops
FollowEnd ==
    /\ pc = "done" /\ response.xNextRange = <<>>
    /\ spans' = Append(spans, Served)
    /\ pc' = "closed"
    /\ UNCHANGED <<objectSize, request, fileSize, start, end, isPartialContent,
                   isFirstRequest, fileMetadata, rangeResponse, response,
                   metaCalls, rangeCalls, fetched, parseVars, optVars,
                   rateVars>>

NextFollow ==
    \/ FollowFirst \/ FollowValidate \/ FollowMetadata \/ FollowBytes
    \/ FollowHint \/ FollowEnd

\* the client goes on asking and the handler runs each request to its end
SpecFollow == InitGet /\ [][NextFollow]_vars /\ WF_vars(NextFollow)

----------------------------------------------------------------------------
(* C12 *)

Contiguous ==
    /\ \A i \in 1..Len(spans) :
          /\ spans[i].status \in {200, 206}
          /\ 0 <= spans[i].start /\ spans[i].start <= spans[i].end
          /\ spans[i].end <= objectSize - 1
    /\ Len(spans) >= 1 => spans[1].start = 0
    /\ \A i \in 1..(Len(spans) - 1) : spans[i + 1].start = spans[i].end + 1

WholeObjectDelivered ==
    /\ pc = "closed"
    /\ Len(spans) >= 1
    /\ spans[Len(spans)].end = objectSize - 1
    /\ response.xNextRange = <<>>

\* C12: a client that starts without a Range header and then requests
\* exactly the X-Next-Range of the response before, the storage always
\* answering, never receives 416; the spans it is served are contiguous and
\* do not overlap; and after finitely many requests it receives a response
\* that ends at objectSize - 1 and carries no X-Next-Range.
C12_FollowingHintsDeliversObject ==
    /\ [](/\ Contiguous
          /\ pc = "done" => response.status \in {200, 206}
          /\ pc = "closed" => WholeObjectDelivered)
    /\ <>WholeObjectDelivered

\* an object delivered in three or more spans
C12_Witness ==
    /\ WholeObjectDelivered /\ Contiguous
    /\ Len(spans) >= 3
    /\ spans[1].end + 1 = spans[2].start

====
